---- MODULE Spec2Model ----
(***************************************************************************)
(* A model of the GraphQL client classes of main.py:                       *)
(*   SimpleGraphQLClient        the transport (one HTTP POST per call)     *)
(*   RobustGraphQLClient        execute_with_retry                         *)
(*   CachedGraphQLClient        execute through functools.lru_cache        *)
(*   GraphQLSubscriptionClient  the subscribe() async generator            *)
(*   TypedGraphQLClient         get_book_by_id, get_all_books              *)
(* Each class is exercised by specifications of its own (SpecRetry,        *)
(* SpecCache, SpecCacheSized, SpecCacheConc, SpecKey, SpecMapper,          *)
(* SpecSub); Spec composes them.                                           *)
(***************************************************************************)
EXTENDS Integers, Sequences, FiniteSets, TLC

VARIABLES
    \* ---- RobustGraphQLClient -------------------------------------------
    max_retries,   \* self.max_retries, set by the constructor
    rPc,           \* position inside execute_with_retry
    attempt,       \* the loop variable of `for attempt in range(...)`
    rCalls,        \* history: number of self.client.execute invocations
    rTrace,        \* history: the outcomes self.client.execute produced
    rOutcome,      \* what execute_with_retry returned or raised
    \* ---- CachedGraphQLClient -------------------------------------------
    cache_size,    \* per instance: self.cache_size, set by the constructor
    cache,         \* the lru_cache of _execute_cached: entries, oldest first
    transportCalls,\* history: number of self.client.execute invocations
    everStored,    \* history: the keys that were ever inserted
    accessOrder,   \* history: cached keys by last access, oldest first
    lastCall,      \* history: the last call of CachedGraphQLClient.execute
    threads,       \* per thread: the call it has inside _execute_cached
    fetched,       \* history: <<key, response>> the transport returned
    kPc,           \* cache keys: "idle", then "done" once they are derived
    kQuery,        \* cache keys: the document of both requests
    kVarsA,        \* cache keys: the variables of the first request
    kVarsB,        \* cache keys: the variables of the second request
    kKeys,         \* cache keys: what was derived for the two requests
    \* ---- TypedGraphQLClient --------------------------------------------
    mPc,           \* "idle", then "done" once the typed operation ended
    mOp,           \* the typed operation that was called
    mResult,       \* what self.client.execute did: the response, or a failure
    mOutcome,      \* what the typed operation returned or raised
    \* ---- GraphQLSubscriptionClient -------------------------------------
    sPc,           \* position inside the subscribe() generator
    conn,          \* the websocket of `async with websockets.connect`
    connsOpened,   \* history: number of connections this session opened
    sent,          \* history: frames the client sent, in order
    received,      \* history: frames the client consumed, in order
    yielded,       \* history: the elements the generator yielded, in order
    sExit          \* how the generator ended

retryVars == <<max_retries, rPc, attempt, rCalls, rTrace, rOutcome>>
cacheVars == <<cache, transportCalls, everStored, accessOrder, lastCall>>
subVars   == <<sPc, conn, connsOpened, sent, received, yielded, sExit>>
cfgVars   == <<cache_size>>
keyVars   == <<kPc, kQuery, kVarsA, kVarsB, kKeys>>
mapVars   == <<mPc, mOp, mResult, mOutcome>>
concVars  == <<threads, fetched>>
restVars  == <<cfgVars, keyVars, mapVars, concVars>>
vars      == <<retryVars, cacheVars, subVars, restVars>>

(***************************************************************************)
(* Bounds of the model.                                                    *)
(***************************************************************************)
MaxRetriesBound == 3   \* max_retries is drawn from 0..MaxRetriesBound
LruMaxSize == 2        \* stands for maxsize=128 of the lru_cache decorator
MaxFrames == 4         \* inbound frames a subscription session consumes
MaxTransportCalls == LruMaxSize + 2
MaxBooks == 2          \* records in the books list of a response

(***************************************************************************)
(* The transport: SimpleGraphQLClient.execute.  requests.post and          *)
(* raise_for_status raise a requests.exceptions.RequestException, or       *)
(* response.json() is returned.  A response is the JSON envelope; `data`   *)
(* and `errors` are keys that may be missing.                              *)
(***************************************************************************)
TransportErrors == {"ConnectionError", "Timeout", "HTTPError"}

NoErrors == <<>>

Response(hasData, data, hasErrors, errors) ==
    [hasData |-> hasData, data |-> data, hasErrors |-> hasErrors, errors |-> errors]

Responses ==
    { Response(TRUE, "d1", FALSE, NoErrors),
      Response(TRUE, "d2", FALSE, NoErrors),
      Response(TRUE, "d1", TRUE, <<"e1", "e2">>),
      Response(FALSE, "", TRUE, <<"e1">>),
      Response(TRUE, "d1", TRUE, NoErrors) }

NoResponse == Response(FALSE, "", FALSE, NoErrors)

Raises(e) == [kind |-> "raise", err |-> e, value |-> NoResponse]
Returns(v) == [kind |-> "return", err |-> "", value |-> v]

\* every outcome one call of SimpleGraphQLClient.execute can have
TransportOutcomes ==
    { Raises(e) : e \in TransportErrors } \cup { Returns(v) : v \in Responses }

(***************************************************************************)
(* RobustGraphQLClient.execute_with_retry                                  *)
(***************************************************************************)
NoOutcome == [kind |-> "none", err |-> "", errors |-> NoErrors, value |-> NoResponse]
Returned(v) == [kind |-> "return", err |-> "", errors |-> NoErrors, value |-> v]
RaisedGraphQLError(errs) ==
    [kind |-> "GraphQLError", err |-> "", errors |-> errs, value |-> NoResponse]
RaisedRequestException(e) ==
    [kind |-> "RequestException", err |-> e, errors |-> NoErrors, value |-> NoResponse]
RaisedMaxRetriesExceeded ==
    [kind |-> "Exception", err |-> "Max retries exceeded", errors |-> NoErrors,
     value |-> NoResponse]

\* mutant: the check for GraphQL errors is left out
HasErrorsKeyIgnored(result) == FALSE

\* `"errors" in result`: the key is present, whatever its value
HasErrorsKey(result) == result.hasErrors

\* mutant: the last attempt is compared off by one
IsLastAttemptEarly(a, m) == a = m - 2

\* mutant: the final failure is never re-raised
IsLastAttemptNever(a, m) == FALSE

\* `attempt == self.max_retries - 1`
IsLastAttempt(a, m) == a = m - 1

\* range(self.max_retries) has another element after a
RangeHasNext(a, m) == a + 1 < m

InitRetry ==
    /\ max_retries \in 0..MaxRetriesBound
    /\ rPc = "idle"
    /\ attempt = 0
    /\ rCalls = 0
    /\ rTrace = <<>>
    /\ rOutcome = NoOutcome

\* entering the for loop: range(self.max_retries) is empty or yields 0
RetryEnter ==
    /\ rPc = "idle"
    /\ attempt' = 0
    /\ rPc' = IF 0 < max_retries THEN "attempt" ELSE "after_loop"
    /\ UNCHANGED <<max_retries, rCalls, rTrace, rOutcome>>

\* one iteration of the loop body: the try block and its except clause
RetryAttempt ==
    /\ rPc = "attempt"
    /\ \E o \in TransportOutcomes :
        /\ rCalls' = rCalls + 1
        /\ rTrace' = Append(rTrace, o)
        /\ IF o.kind = "return"
             THEN /\ rOutcome' = IF HasErrorsKey(o.value)
                                   THEN RaisedGraphQLError(o.value.errors)
                                   ELSE Returned(o.value)
                  /\ rPc' = "done"
                  /\ UNCHANGED attempt
             ELSE IF IsLastAttempt(attempt, max_retries)
                    THEN /\ rOutcome' = RaisedRequestException(o.err)
                         /\ rPc' = "done"
                         /\ UNCHANGED attempt
                    ELSE /\ UNCHANGED rOutcome
                         /\ IF RangeHasNext(attempt, max_retries)
                              THEN rPc' = "attempt" /\ attempt' = attempt + 1
                              ELSE rPc' = "after_loop" /\ UNCHANGED attempt
    /\ UNCHANGED max_retries

\* the statement after the loop
RetryAfterLoop ==
    /\ rPc = "after_loop"
    /\ rOutcome' = RaisedMaxRetriesExceeded
    /\ rPc' = "done"
    /\ UNCHANGED <<max_retries, attempt, rCalls, rTrace>>

NextRetry == RetryEnter \/ RetryAttempt \/ RetryAfterLoop

(***************************************************************************)
(* Python values of the `variables` argument: None or a dict, whose        *)
(* items keep their insertion order; values are ints or dicts.             *)
(***************************************************************************)
PyNone == [tag |-> "None", n |-> 0, items |-> <<>>]
PyInt(n) == [tag |-> "int", n |-> n, items |-> <<>>]
PyDict(items) == [tag |-> "dict", n |-> 0, items |-> items]
Item(k, v) == [k |-> k, v |-> v]

\* the key names in use, in the order str comparison gives them
KeyNames == <<"a", "b">>
KeyRank(k) == CHOOSE i \in 1..Len(KeyNames) : KeyNames[i] = k

\* truth value of a Python object: None and the empty dict are false
Truthy(v) ==
    CASE v.tag = "None" -> FALSE
      [] v.tag = "dict" -> Len(v.items) > 0
      [] v.tag = "int" -> v.n # 0

\* `variables or {}`
OrEmptyDict(v) == IF Truthy(v) THEN v ELSE PyDict(<<>>)

\* mutant: sort_keys is left out, the items stay in insertion order
SortItemsUnsorted(items) == items

\* the items of a dict ordered by key, as sort_keys=True emits them
RECURSIVE SortItems(_)
SortItems(items) ==
    IF items = <<>> THEN <<>>
    ELSE LET i == CHOOSE i \in 1..Len(items) :
                      \A j \in 1..Len(items) : KeyRank(items[i].k) <= KeyRank(items[j].k)
             rest == [j \in 1..(Len(items) - 1) |-> IF j < i THEN items[j] ELSE items[j + 1]]
         IN  <<items[i]>> \o SortItems(rest)

\* a value with the items of every dict in it, at any depth, ordered by key
RECURSIVE SortValue(_)
SortValue(v) ==
    IF v.tag = "dict"
      THEN PyDict([i \in 1..Len(v.items) |->
                      LET it == SortItems(v.items)[i] IN Item(it.k, SortValue(it.v))])
      ELSE v

\* json.dumps(v, sort_keys=True): the text, as the members in the order they
\* are written
JsonDumpsSorted(v) ==
    IF v.tag = "dict"
      THEN [json |-> "object", members |-> SortValue(v).items]
      ELSE [json |-> "scalar", members |-> <<Item("", v)>>]

\* json.loads(text): a dict holding the members in the order of the text
JsonLoads(text) ==
    IF text.json = "object" THEN PyDict(text.members) ELSE text.members[1].v

\* json.dumps(result) / json.loads(result_json) of a response envelope
JsonDumpsResult(result) == [json |-> "envelope", result |-> result]
JsonLoadsResult(text) == text.result

(***************************************************************************)
(* CachedGraphQLClient                                                     *)
(***************************************************************************)
Clients == {"A", "B"}
Queries == {"q1"}
VariablesChoices ==
    { PyNone,
      PyDict(<<>>),
      PyDict(<<Item("a", PyInt(1)), Item("b", PyInt(2))>>),
      PyDict(<<Item("b", PyInt(2)), Item("a", PyInt(1))>>) }

\* the responses and failures the transport gives the cached client
CacheTransportOutcomes ==
    { Returns(Response(TRUE, "d1", FALSE, NoErrors)),
      Returns(Response(TRUE, "d1", TRUE, <<"e1">>)),
      Raises("ConnectionError") }

\* functools._make_key(args, kwds, typed=False) for the call
\* self._execute_cached(query, variables_json): the positional arguments,
\* self included
MakeKey(self, query, variables_json) ==
    [self |-> self, query |-> query, variables_json |-> variables_json]

CachedKeys(c) == { c[i].key : i \in 1..Len(c) }

\* lru_cache wrapper, lookup: cache_get(key)
LruLookup(c, key) == key \in CachedKeys(c)

\* position of the link of a cached key
LruIndex(c, key) == CHOOSE i \in 1..Len(c) : c[i].key = key

RemoveAt(seq, i) == [j \in 1..(Len(seq) - 1) |-> IF j < i THEN seq[j] ELSE seq[j + 1]]

\* mutant: a hit leaves the order of the links alone (first in, first out)
LruHitNoRefresh(c, key) == c

\* lru_cache wrapper, hit: the link is moved to the most recent end
LruHit(c, key) ==
    LET i == LruIndex(c, key) IN Append(RemoveAt(c, i), c[i])

\* mutant: the result is never kept
LruStoreDropped(c, key, value) == c

\* mutant: a response that carries errors is not kept
LruStoreSkipsErrors(c, key, value) ==
    IF key \in CachedKeys(c) \/ value.result.hasErrors THEN c
    ELSE IF Len(c) >= LruMaxSize
           THEN Append(Tail(c), [key |-> key, value |-> value])
           ELSE Append(c, [key |-> key, value |-> value])

\* mutant: the result is stored without looking whether the key got there
LruStoreUnchecked(c, key, value) ==
    IF Len(c) >= LruMaxSize
      THEN Append(Tail(c), [key |-> key, value |-> value])
      ELSE Append(c, [key |-> key, value |-> value])

\* lru_cache wrapper, after the user function returned: the key is kept if
\* it got there meanwhile, the oldest link is reused when the cache is full,
\* otherwise a new link is put at the most recent end
LruStore(c, key, value) ==
    IF key \in CachedKeys(c) THEN c
    ELSE IF Len(c) >= LruMaxSize
           THEN Append(Tail(c), [key |-> key, value |-> value])
           ELSE Append(c, [key |-> key, value |-> value])

NoCall ==
    [self |-> "", query |-> "", variables |-> PyNone, use_cache |-> FALSE,
     key |-> MakeKey("", "", JsonDumpsSorted(PyDict(<<>>))),
     hit |-> FALSE, transport |-> FALSE, kind |-> "none", err |-> "",
     value |-> NoResponse]

\* the cache_size arguments an instance may be constructed with
CacheSizes == 1..LruMaxSize

\* cache_size of every instance left at its default, which is the maxsize
\* of the decorator
DefaultCacheSize == [c \in Clients |-> LruMaxSize]

InitCache ==
    /\ cache_size \in [Clients -> CacheSizes]
    /\ cache = <<>>
    /\ transportCalls = 0
    /\ everStored = {}
    /\ accessOrder = <<>>
    /\ lastCall = NoCall

SeqWithout(seq, x) == SelectSeq(seq, LAMBDA y : y # x)

\* CachedGraphQLClient.execute(query, variables) with use_cache=True, on
\* client `self`; o is what self.client.execute does if it is called
ExecuteCached(self, query, variables, o) ==
    LET variables_json == JsonDumpsSorted(OrEmptyDict(variables))
        key == MakeKey(self, query, variables_json)
        call == [self |-> self, query |-> query, variables |-> variables,
                 use_cache |-> TRUE, key |-> key]
    IN  IF LruLookup(cache, key)
          THEN \* hit: _execute_cached is not entered
               /\ cache' = LruHit(cache, key)
               /\ accessOrder' = Append(SeqWithout(accessOrder, key), key)
               /\ lastCall' = call @@ [hit |-> TRUE, transport |-> FALSE,
                     kind |-> "return", err |-> "",
                     value |-> JsonLoadsResult(cache[LruIndex(cache, key)].value)]
               /\ UNCHANGED <<transportCalls, everStored>>
          ELSE \* miss: _execute_cached runs and calls the transport
               /\ transportCalls < MaxTransportCalls
               /\ transportCalls' = transportCalls + 1
               /\ IF o.kind = "return"
                    THEN /\ cache' = LruStore(cache, key, JsonDumpsResult(o.value))
                         /\ everStored' = everStored \cup {key}
                         /\ accessOrder' =
                               SelectSeq(Append(accessOrder, key),
                                         LAMBDA k : k \in CachedKeys(cache'))
                         /\ lastCall' = call @@ [hit |-> FALSE, transport |-> TRUE,
                               kind |-> "return", err |-> "",
                               value |-> JsonLoadsResult(JsonDumpsResult(o.value))]
                    ELSE /\ lastCall' = call @@ [hit |-> FALSE, transport |-> TRUE,
                               kind |-> "raise", err |-> o.err, value |-> NoResponse]
                         /\ UNCHANGED <<cache, everStored, accessOrder>>

\* CachedGraphQLClient.execute(query, variables, use_cache=False)
ExecuteUncached(self, query, variables, o) ==
    /\ transportCalls < MaxTransportCalls
    /\ transportCalls' = transportCalls + 1
    /\ lastCall' =
          [self |-> self, query |-> query, variables |-> variables,
           use_cache |-> FALSE,
           key |-> MakeKey(self, query, JsonDumpsSorted(OrEmptyDict(variables))),
           hit |-> FALSE, transport |-> TRUE, kind |-> o.kind, err |-> o.err,
           value |-> o.value]
    /\ UNCHANGED <<cache, everStored, accessOrder>>

CachedCall ==
    \E self \in Clients, query \in Queries, variables \in VariablesChoices,
       o \in CacheTransportOutcomes :
        ExecuteCached(self, query, variables, o)

UncachedCall ==
    \E self \in Clients, query \in Queries, variables \in VariablesChoices,
       o \in CacheTransportOutcomes :
        ExecuteUncached(self, query, variables, o)

NextCache == CachedCall \/ UncachedCall

(***************************************************************************)
(* CachedGraphQLClient.execute called from several threads.  The wrapper   *)
(* of lru_cache looks the key up, calls _execute_cached without holding    *)
(* anything, and stores the result afterwards; lookup and store are each   *)
(* one step (they run under the lock of the wrapper), the transport call   *)
(* between them is where other threads run.                                *)
(***************************************************************************)
Threads == {"t1", "t2"}

\* the requests the threads make
ConcVariablesChoices ==
    { PyNone, PyDict(<<Item("a", PyInt(1)), Item("b", PyInt(2))>>) }

Idle == [pc |-> "idle", self |-> "", query |-> "", variables |-> PyNone]

InFlight(self, query, variables) ==
    [pc |-> "fetching", self |-> self, query |-> query, variables |-> variables]

\* the key of the call a thread has in flight
KeyOfThread(th) ==
    MakeKey(th.self, th.query, JsonDumpsSorted(OrEmptyDict(th.variables)))

CallOfThread(th) ==
    [self |-> th.self, query |-> th.query, variables |-> th.variables,
     use_cache |-> TRUE, key |-> KeyOfThread(th)]

InitConc ==
    /\ threads = [t \in Threads |-> Idle]
    /\ fetched = {}

\* execute(query, variables) on thread t, the lookup of the wrapper finds
\* the key: the link is refreshed and the stored string is returned
ThreadHit(t, self, query, variables) ==
    LET th == InFlight(self, query, variables)
        key == KeyOfThread(th)
    IN  /\ threads[t].pc = "idle"
        /\ LruLookup(cache, key)
        /\ cache' = LruHit(cache, key)
        /\ accessOrder' = Append(SeqWithout(accessOrder, key), key)
        /\ lastCall' = CallOfThread(th) @@ [hit |-> TRUE, transport |-> FALSE,
              kind |-> "return", err |-> "",
              value |-> JsonLoadsResult(cache[LruIndex(cache, key)].value)]
        /\ UNCHANGED <<transportCalls, everStored, threads, fetched>>

\* the lookup of the wrapper misses: _execute_cached is entered and calls
\* self.client.execute
ThreadMiss(t, self, query, variables) ==
    LET th == InFlight(self, query, variables)
    IN  /\ threads[t].pc = "idle"
        /\ ~LruLookup(cache, KeyOfThread(th))
        /\ transportCalls < MaxTransportCalls
        /\ transportCalls' = transportCalls + 1
        /\ threads' = [threads EXCEPT ![t] = th]
        /\ UNCHANGED <<cache, everStored, accessOrder, lastCall, fetched>>

\* self.client.execute returns on thread t: the wrapper stores the dumped
\* response unless the key got there meanwhile, and execute returns it
ThreadReturn(t, value) ==
    LET th == threads[t]
        key == KeyOfThread(th)
    IN  /\ th.pc = "fetching"
        /\ fetched' = fetched \cup {<<key, value>>}
        /\ cache' = LruStore(cache, key, JsonDumpsResult(value))
        /\ everStored' = everStored \cup {key}
        /\ accessOrder' =
              IF key \in CachedKeys(cache) THEN accessOrder
              ELSE SelectSeq(Append(accessOrder, key),
                             LAMBDA k : k \in CachedKeys(cache'))
        /\ lastCall' = CallOfThread(th) @@ [hit |-> FALSE, transport |-> TRUE,
              kind |-> "return", err |-> "",
              value |-> JsonLoadsResult(JsonDumpsResult(value))]
        /\ threads' = [threads EXCEPT ![t] = Idle]
        /\ UNCHANGED transportCalls

\* self.client.execute raises on thread t: nothing is stored
ThreadRaise(t, err) ==
    LET th == threads[t]
    IN  /\ th.pc = "fetching"
        /\ lastCall' = CallOfThread(th) @@ [hit |-> FALSE, transport |-> TRUE,
              kind |-> "raise", err |-> err, value |-> NoResponse]
        /\ threads' = [threads EXCEPT ![t] = Idle]
        /\ UNCHANGED <<cache, transportCalls, everStored, accessOrder, fetched>>

ConcHit ==
    \E t \in Threads, self \in Clients, query \in Queries,
       variables \in ConcVariablesChoices :
        ThreadHit(t, self, query, variables)

ConcMiss ==
    \E t \in Threads, self \in Clients, query \in Queries,
       variables \in ConcVariablesChoices :
        ThreadMiss(t, self, query, variables)

ConcReturn ==
    \E t \in Threads, o \in CacheTransportOutcomes :
        o.kind = "return" /\ ThreadReturn(t, o.value)

ConcRaise ==
    \E t \in Threads, o \in CacheTransportOutcomes :
        o.kind = "raise" /\ ThreadRaise(t, o.err)

NextConc == ConcHit \/ ConcMiss \/ ConcReturn \/ ConcRaise

(***************************************************************************)
(* Cache keys of two requests with the same document: _cache_key, and the  *)
(* key the lru_cache of _execute_cached is looked up with.                 *)
(***************************************************************************)
KeyQueries == {"q1", "q2"}

AB == <<Item("a", PyInt(1)), Item("b", PyInt(2))>>
BA == <<Item("b", PyInt(2)), Item("a", PyInt(1))>>

KeyVariablesChoices ==
    { PyNone,
      PyDict(<<>>),
      PyDict(AB),
      PyDict(BA),
      PyDict(<<Item("a", PyInt(1)), Item("b", PyInt(3))>>),
      PyDict(<<Item("a", PyInt(1))>>),
      PyDict(<<Item("a", PyDict(AB)), Item("b", PyInt(2))>>),
      PyDict(<<Item("b", PyInt(2)), Item("a", PyDict(BA))>>),
      PyDict(<<Item("a", PyDict(BA)), Item("b", PyInt(2))>>),
      PyDict(<<Item("a", PyDict(<<Item("a", PyInt(1)), Item("b", PyInt(3))>>)),
               Item("b", PyInt(2))>>) }

\* query + text: the document followed by the text
Concat(query, text) == [head |-> query, tail |-> text]

\* hashlib.md5(content.encode()).hexdigest(): a digest of the content
Md5HexDigest(content) == [md5 |-> content]

\* CachedGraphQLClient._cache_key(query, variables)
CacheKey(query, variables) ==
    Md5HexDigest(Concat(query, JsonDumpsSorted(OrEmptyDict(variables))))

\* the key CachedGraphQLClient.execute(query, variables) reaches the
\* lru_cache with, on instance `self`
ExecuteKey(self, query, variables) ==
    MakeKey(self, query, JsonDumpsSorted(OrEmptyDict(variables)))

NoKeys ==
    [cache_key_a |-> CacheKey("", PyNone), cache_key_b |-> CacheKey("", PyNone),
     execute_key_a |-> ExecuteKey("", "", PyNone),
     execute_key_b |-> ExecuteKey("", "", PyNone),
     hit_b |-> FALSE]

InitKey ==
    /\ kPc = "idle"
    /\ kQuery \in KeyQueries
    /\ kVarsA \in KeyVariablesChoices
    /\ kVarsB \in KeyVariablesChoices
    /\ kKeys = NoKeys

\* both requests are made on one instance, the first one on an empty cache:
\* their keys, and whether the second request finds the entry of the first
DeriveKeys ==
    /\ kPc = "idle"
    /\ kPc' = "done"
    /\ kKeys' =
          [cache_key_a |-> CacheKey(kQuery, kVarsA),
           cache_key_b |-> CacheKey(kQuery, kVarsB),
           execute_key_a |-> ExecuteKey("A", kQuery, kVarsA),
           execute_key_b |-> ExecuteKey("A", kQuery, kVarsB),
           hit_b |-> LruLookup(
               LruStore(<<>>, ExecuteKey("A", kQuery, kVarsA),
                        JsonDumpsResult(Response(TRUE, "d1", FALSE, NoErrors))),
               ExecuteKey("A", kQuery, kVarsB))]
    /\ UNCHANGED <<kQuery, kVarsA, kVarsB>>

NextKey == DeriveKeys

(***************************************************************************)
(* TypedGraphQLClient: get_book_by_id and get_all_books turn the response  *)
(* of the transport into Book and Author dataclasses.  A JSON value that   *)
(* may be missing carries a tag: "absent" (no such key), "null", "empty"   *)
(* (the object {}), "record" or "list".                                    *)
(***************************************************************************)
AuthorData(tag, id, name, hasBirthYear, birthYear) ==
    [tag |-> tag, id |-> id, name |-> name, hasBirthYear |-> hasBirthYear,
     birthYear |-> birthYear]

NoAuthorData(tag) == AuthorData(tag, 0, "", FALSE, 0)

AuthorDatas ==
    { NoAuthorData("absent"), NoAuthorData("null"), NoAuthorData("empty"),
      AuthorData("record", 3, "George Orwell", TRUE, 1903),
      AuthorData("record", 3, "George Orwell", FALSE, 0) }

BookData(id, title, hasGenre, genre, hasYear, publishedYear, author) ==
    [id |-> id, title |-> title, hasGenre |-> hasGenre, genre |-> genre,
     hasYear |-> hasYear, publishedYear |-> publishedYear, author |-> author]

Titles == <<"1984", "Animal Farm">>

\* the book objects a response may hold: with all the requested fields and
\* any author, with id and title only, and without publishedYear
BookDatas ==
    { BookData(i, Titles[i], TRUE, "Dystopian", TRUE, 1949, a) :
          i \in 1..Len(Titles), a \in AuthorDatas }
    \cup { BookData(i, Titles[i], FALSE, "", FALSE, 0, NoAuthorData("absent")) :
          i \in 1..Len(Titles) }
    \cup { BookData(i, Titles[i], TRUE, "Dystopian", FALSE, 0, NoAuthorData("absent")) :
          i \in 1..Len(Titles) }

NoBookData == BookData(0, "", FALSE, "", FALSE, 0, NoAuthorData("absent"))

BookLists == UNION { [1..n -> BookDatas] : n \in 0..MaxBooks }

\* a response envelope: data is "absent", "null" or "map"; book and books
\* are the root fields of data
Envelope(data, bookTag, book, booksTag, books) ==
    [data |-> data, book |-> [tag |-> bookTag, rec |-> book],
     books |-> [tag |-> booksTag, list |-> books]]

BookEnvelopes ==
    { Envelope("absent", "absent", NoBookData, "absent", <<>>),
      Envelope("null", "absent", NoBookData, "absent", <<>>),
      Envelope("map", "absent", NoBookData, "absent", <<>>),
      Envelope("map", "null", NoBookData, "absent", <<>>),
      Envelope("map", "empty", NoBookData, "absent", <<>>) }
    \cup { Envelope("map", "record", b, "absent", <<>>) : b \in BookDatas }

BooksEnvelopes ==
    { Envelope("absent", "absent", NoBookData, "absent", <<>>),
      Envelope("null", "absent", NoBookData, "absent", <<>>),
      Envelope("map", "absent", NoBookData, "absent", <<>>),
      Envelope("map", "absent", NoBookData, "null", <<>>) }
    \cup { Envelope("map", "absent", NoBookData, "list", l) : l \in BookLists }

NoEnvelope == Envelope("absent", "absent", NoBookData, "absent", <<>>)

\* the Author and Book dataclasses
Author(id, name, birth_year) == [id |-> id, name |-> name, birth_year |-> birth_year]
NoAuthor == Author(0, "", 0)
Book(id, title, genre, published_year, hasAuthor, author) ==
    [id |-> id, title |-> title, genre |-> genre, published_year |-> published_year,
     hasAuthor |-> hasAuthor, author |-> author]
NoBook == Book(0, "", "", 0, FALSE, NoAuthor)

\* the result of a step that may raise: err is "" or the exception
Ok(books) == [err |-> "", books |-> books]
Err(e) == [err |-> e, books |-> <<>>]

\* mutant: the author of a record is never mapped
MapAuthorDropped(author_data) == [err |-> "", has |-> FALSE, author |-> NoAuthor]

\* `author_data = book_data.get("author")`, `if author_data: Author(...)`
MapAuthor(author_data) ==
    IF author_data.tag \in {"absent", "null", "empty"}
      THEN [err |-> "", has |-> FALSE, author |-> NoAuthor]
    ELSE IF ~author_data.hasBirthYear
      THEN [err |-> "KeyError", has |-> FALSE, author |-> NoAuthor]
    ELSE [err |-> "", has |-> TRUE,
          author |-> Author(author_data.id, author_data.name, author_data.birthYear)]

\* the author, then Book(id=book_data["id"], ..., author=author)
MapBook(book_data) ==
    LET a == MapAuthor(book_data.author)
    IN  IF a.err # "" THEN Err(a.err)
        ELSE IF ~book_data.hasGenre \/ ~book_data.hasYear THEN Err("KeyError")
        ELSE Ok(<<Book(book_data.id, book_data.title, book_data.genre,
                       book_data.publishedYear, a.has, a.author)>>)

\* `for book_data in books_data: ... books.append(book)`
RECURSIVE MapBooks(_)
MapBooks(books_data) ==
    IF books_data = <<>> THEN Ok(<<>>)
    ELSE LET b == MapBook(Head(books_data))
         IN  IF b.err # "" THEN b
             ELSE LET rest == MapBooks(Tail(books_data))
                  IN  IF rest.err # "" THEN rest ELSE Ok(b.books \o rest.books)

MapperNone == [kind |-> "none", err |-> "", isNone |-> FALSE, books |-> <<>>]
MapperReturnsNone == [kind |-> "return", err |-> "", isNone |-> TRUE, books |-> <<>>]
MapperReturns(books) == [kind |-> "return", err |-> "", isNone |-> FALSE, books |-> books]
MapperRaises(e) == [kind |-> "raise", err |-> e, isNone |-> FALSE, books |-> <<>>]

MapperResult(r) == IF r.err # "" THEN MapperRaises(r.err) ELSE MapperReturns(r.books)

\* get_book_by_id on the response `result`
BookById(result) ==
    IF result.data = "null"
      THEN \* result.get("data", {}) is None: None has no get
           MapperRaises("AttributeError")
    ELSE IF result.data = "absent" \/ result.book.tag \in {"absent", "null", "empty"}
      THEN \* `if not book_data: return None`
           MapperReturnsNone
    ELSE MapperResult(MapBook(result.book.rec))

\* get_all_books on the response `result`
AllBooks(result) ==
    IF result.data = "null"
      THEN MapperRaises("AttributeError")
    ELSE IF result.data = "absent" \/ result.books.tag = "absent"
      THEN \* the default of .get("books", [])
           MapperReturns(<<>>)
    ELSE IF result.books.tag = "null"
      THEN \* `for book_data in None`
           MapperRaises("TypeError")
    ELSE MapperResult(MapBooks(result.books.list))

MapperFailed(e) == [kind |-> "raise", err |-> e, value |-> NoEnvelope]
MapperGot(v) == [kind |-> "return", err |-> "", value |-> v]

InitMapper ==
    /\ mPc = "idle"
    /\ mOp = ""
    /\ mResult = MapperGot(NoEnvelope)
    /\ mOutcome = MapperNone

\* TypedGraphQLClient.get_book_by_id(book_id)
GetBookById ==
    /\ mPc = "idle"
    /\ mPc' = "done"
    /\ mOp' = "get_book_by_id"
    /\ \/ \E e \in TransportErrors :
             mResult' = MapperFailed(e) /\ mOutcome' = MapperRaises(e)
       \/ \E v \in BookEnvelopes :
             mResult' = MapperGot(v) /\ mOutcome' = BookById(v)

\* TypedGraphQLClient.get_all_books()
GetAllBooks ==
    /\ mPc = "idle"
    /\ mPc' = "done"
    /\ mOp' = "get_all_books"
    /\ \/ \E e \in TransportErrors :
             mResult' = MapperFailed(e) /\ mOutcome' = MapperRaises(e)
       \/ \E v \in BooksEnvelopes :
             mResult' = MapperGot(v) /\ mOutcome' = AllBooks(v)

NextMapper == GetBookById \/ GetAllBooks

(***************************************************************************)
(* GraphQLSubscriptionClient.subscribe: an async generator.  Its body runs *)
(* inside `async with websockets.connect(...) as websocket`, whose exit    *)
(* closes the connection however the body is left.                         *)
(***************************************************************************)
SubscriptionId == "1"

Frame(type, id, hasData, data) ==
    [type |-> type, id |-> id, hasData |-> hasData, data |-> data]

\* the text frames the server may send; "malformed" is text json.loads rejects
InboundFrames ==
    { Frame("connection_ack", "", FALSE, 0),
      Frame("data", "1", TRUE, 1),
      Frame("data", "1", TRUE, 2),
      Frame("data", "2", TRUE, 1),
      Frame("data", "1", FALSE, 0),
      Frame("error", "1", FALSE, 0),
      Frame("complete", "1", FALSE, 0),
      Frame("malformed", "", FALSE, 0) }

ConnectionInit == Frame("connection_init", "", FALSE, 0)
StartFrame == Frame("start", SubscriptionId, FALSE, 0)

\* the element yielded for a frame: data.get("payload", {}).get("data", {})
EmptyDict == 0
PayloadData(f) == IF f.hasData THEN f.data ELSE EmptyDict

\* mutant: error messages are passed on like data messages
IsDataMessageOrError(f) == f.type \in {"data", "error"}

\* `data.get("type") == "data"`
IsDataMessage(f) == f.type = "data"

\* mutant: leaving the body does not close the connection
AsyncWithExitLeaks(c) == c

\* __aexit__ of websockets.connect: the connection is closed
AsyncWithExit(c) == IF c = "open" THEN "released" ELSE c

InitSub ==
    /\ sPc = "idle"
    /\ conn = "none"
    /\ connsOpened = 0
    /\ sent = <<>>
    /\ received = <<>>
    /\ yielded = <<>>
    /\ sExit = "running"

\* the body is left: by `how`, through the exit of the async with block
LeaveBody(how) ==
    /\ sPc' = "done"
    /\ sExit' = how
    /\ conn' = AsyncWithExit(conn)

\* the consumer asks for the first element: the body starts and awaits
\* websockets.connect
SubStart ==
    /\ sPc = "idle"
    /\ sPc' = "connecting"
    /\ UNCHANGED <<conn, connsOpened, sent, received, yielded, sExit>>

\* the connection is established; connection_init is sent; recv() is awaited
SubConnected ==
    /\ sPc = "connecting"
    /\ conn' = "open"
    /\ connsOpened' = connsOpened + 1
    /\ sent' = Append(sent, ConnectionInit)
    /\ sPc' = "ack_wait"
    /\ UNCHANGED <<received, yielded, sExit>>

\* the connection is established but is gone when connection_init is sent:
\* websocket.send raises ConnectionClosed
SubInitSendFails ==
    /\ sPc = "connecting"
    /\ connsOpened' = connsOpened + 1
    /\ sPc' = "done"
    /\ sExit' = "raised"
    /\ conn' = AsyncWithExit("open")
    /\ UNCHANGED <<sent, received, yielded>>

\* websockets.connect raises: no connection was opened
SubConnectFails ==
    /\ sPc = "connecting"
    /\ LeaveBody("raised")
    /\ UNCHANGED <<connsOpened, sent, received, yielded>>

\* `response = await websocket.recv()` returns a frame; the start message
\* is sent; the loop awaits the next message
SubRecvFirst ==
    /\ sPc = "ack_wait"
    /\ Len(received) < MaxFrames
    /\ \E f \in InboundFrames : received' = Append(received, f)
    /\ sent' = Append(sent, StartFrame)
    /\ sPc' = "listening"
    /\ UNCHANGED <<conn, connsOpened, yielded, sExit>>

\* recv() returns a frame but the connection is gone when the start message
\* is sent: websocket.send raises ConnectionClosed
SubStartSendFails ==
    /\ sPc = "ack_wait"
    /\ Len(received) < MaxFrames
    /\ \E f \in InboundFrames : received' = Append(received, f)
    /\ LeaveBody("raised")
    /\ UNCHANGED <<connsOpened, sent, yielded>>

\* one iteration of `async for message in websocket`
SubRecvMessage ==
    /\ sPc = "listening"
    /\ Len(received) < MaxFrames
    /\ \E f \in InboundFrames :
        /\ received' = Append(received, f)
        /\ IF f.type = "malformed"
             THEN \* json.loads raises
                  /\ LeaveBody("raised")
                  /\ UNCHANGED yielded
             ELSE IF IsDataMessage(f)
                    THEN /\ yielded' = Append(yielded,
                                [data |-> PayloadData(f), at |-> Len(received')])
                         /\ sPc' = "yielded"
                         /\ UNCHANGED <<conn, sExit>>
                    ELSE UNCHANGED <<sPc, conn, yielded, sExit>>
    /\ UNCHANGED <<connsOpened, sent>>

\* the consumer asks for the next element: the body resumes after the yield
SubResume ==
    /\ sPc = "yielded"
    /\ sPc' = "listening"
    /\ UNCHANGED <<conn, connsOpened, sent, received, yielded, sExit>>

\* the server closes the connection normally while the loop waits: the
\* iteration ends and the generator returns
SubServerClose ==
    /\ sPc = "listening"
    /\ LeaveBody("exhausted")
    /\ UNCHANGED <<connsOpened, sent, received, yielded>>

\* the connection drops (or is closed before the first frame): the pending
\* recv raises ConnectionClosed
SubDisconnect ==
    /\ sPc \in {"ack_wait", "listening"}
    /\ LeaveBody("raised")
    /\ UNCHANGED <<connsOpened, sent, received, yielded>>

\* the consumer gives the stream up: aclose() of the generator (GeneratorExit
\* at the yield, or nothing to run if the body never started), or
\* cancellation of the task awaiting it (CancelledError at the await)
SubCancel ==
    /\ sPc \in {"idle", "connecting", "ack_wait", "listening", "yielded"}
    /\ LeaveBody("cancelled")
    /\ UNCHANGED <<connsOpened, sent, received, yielded>>

NextSub ==
    \/ SubStart \/ SubConnected \/ SubConnectFails \/ SubRecvFirst
    \/ SubInitSendFails \/ SubStartSendFails
    \/ SubRecvMessage \/ SubResume \/ SubServerClose \/ SubDisconnect
    \/ SubCancel

(***************************************************************************)
(* Specifications                                                          *)
(***************************************************************************)
NoKeyRequests == kQuery = "q1" /\ kVarsA = PyNone /\ kVarsB = PyNone

Init ==
    InitRetry /\ InitCache /\ InitConc /\ InitSub /\ InitKey /\ InitMapper

Next ==
    \/ NextRetry /\ UNCHANGED <<cacheVars, subVars, restVars>>
    \/ NextCache /\ UNCHANGED <<retryVars, subVars, restVars>>
    \/ NextConc /\ UNCHANGED <<retryVars, subVars, cfgVars, keyVars, mapVars>>
    \/ NextSub /\ UNCHANGED <<retryVars, cacheVars, restVars>>
    \/ NextKey /\ UNCHANGED <<retryVars, cacheVars, subVars, cfgVars, mapVars, concVars>>
    \/ NextMapper /\ UNCHANGED <<retryVars, cacheVars, subVars, cfgVars, keyVars, concVars>>

Spec == Init /\ [][Next]_vars

\* one RobustGraphQLClient making one call of execute_with_retry
NextRetryOnly ==
    \/ RetryEnter /\ UNCHANGED <<cacheVars, subVars, restVars>>
    \/ RetryAttempt /\ UNCHANGED <<cacheVars, subVars, restVars>>
    \/ RetryAfterLoop /\ UNCHANGED <<cacheVars, subVars, restVars>>

InitRetryOnly == Init /\ cache_size = DefaultCacheSize /\ NoKeyRequests

SpecRetry == InitRetryOnly /\ [][NextRetryOnly]_vars

\* CachedGraphQLClient instances called one call after the other
InitCacheOnly ==
    Init /\ max_retries = 3 /\ cache_size = DefaultCacheSize /\ NoKeyRequests

NextCacheOnly ==
    \/ CachedCall /\ UNCHANGED <<retryVars, subVars, restVars>>
    \/ UncachedCall /\ UNCHANGED <<retryVars, subVars, restVars>>

SpecCache == InitCacheOnly /\ [][NextCacheOnly]_vars

\* the same, the instances constructed with any cache_size
InitCacheSized == Init /\ max_retries = 3 /\ NoKeyRequests

SpecCacheSized == InitCacheSized /\ [][NextCacheOnly]_vars

\* CachedGraphQLClient instances called from several threads at once
InitCacheConcOnly ==
    Init /\ max_retries = 3 /\ cache_size = DefaultCacheSize /\ NoKeyRequests

NextCacheConcOnly ==
    \/ ConcHit /\ UNCHANGED <<retryVars, subVars, cfgVars, keyVars, mapVars>>
    \/ ConcMiss /\ UNCHANGED <<retryVars, subVars, cfgVars, keyVars, mapVars>>
    \/ ConcReturn /\ UNCHANGED <<retryVars, subVars, cfgVars, keyVars, mapVars>>
    \/ ConcRaise /\ UNCHANGED <<retryVars, subVars, cfgVars, keyVars, mapVars>>

SpecCacheConc == InitCacheConcOnly /\ [][NextCacheConcOnly]_vars

\* one subscription session
InitSubOnly ==
    Init /\ max_retries = 3 /\ cache_size = DefaultCacheSize /\ NoKeyRequests

NextSubOnly ==
    \/ SubStart /\ UNCHANGED <<retryVars, cacheVars, restVars>>
    \/ SubConnected /\ UNCHANGED <<retryVars, cacheVars, restVars>>
    \/ SubInitSendFails /\ UNCHANGED <<retryVars, cacheVars, restVars>>
    \/ SubConnectFails /\ UNCHANGED <<retryVars, cacheVars, restVars>>
    \/ SubStartSendFails /\ UNCHANGED <<retryVars, cacheVars, restVars>>
    \/ SubRecvFirst /\ UNCHANGED <<retryVars, cacheVars, restVars>>
    \/ SubRecvMessage /\ UNCHANGED <<retryVars, cacheVars, restVars>>
    \/ SubResume /\ UNCHANGED <<retryVars, cacheVars, restVars>>
    \/ SubServerClose /\ UNCHANGED <<retryVars, cacheVars, restVars>>
    \/ SubDisconnect /\ UNCHANGED <<retryVars, cacheVars, restVars>>
    \/ SubCancel /\ UNCHANGED <<retryVars, cacheVars, restVars>>

SpecSub == InitSubOnly /\ [][NextSubOnly]_vars

\* the cache keys of pairs of requests
InitKeyOnly == Init /\ max_retries = 3 /\ cache_size = DefaultCacheSize

NextKeyOnly ==
    DeriveKeys /\ UNCHANGED <<retryVars, cacheVars, subVars, cfgVars, mapVars, concVars>>

SpecKey == InitKeyOnly /\ [][NextKeyOnly]_vars

\* one call of a typed operation of TypedGraphQLClient
InitMapperOnly ==
    Init /\ max_retries = 3 /\ cache_size = DefaultCacheSize /\ NoKeyRequests

NextMapperOnly ==
    \/ GetBookById /\ UNCHANGED <<retryVars, cacheVars, subVars, cfgVars, keyVars, concVars>>
    \/ GetAllBooks /\ UNCHANGED <<retryVars, cacheVars, subVars, cfgVars, keyVars, concVars>>

SpecMapper == InitMapperOnly /\ [][NextMapperOnly]_vars

(***************************************************************************)
(* Properties of execute_with_retry (checked under SpecRetry)              *)
(***************************************************************************)
\* every call of the transport made so far raised
AlwaysFailed == \A i \in 1..Len(rTrace) : rTrace[i].kind = "raise"

\* the i-th call of the transport returned a response with non-empty errors
ReturnedErrors(i) ==
    /\ rTrace[i].kind = "return"
    /\ rTrace[i].value.hasErrors
    /\ rTrace[i].value.errors # NoErrors

\* C2: when the transport raises a transport-level failure on every call,
\* execute_with_retry ends by raising after exactly max_retries calls of
\* the transport (3 calls when max_retries is 3).
RetryBound ==
    (rPc = "done" /\ AlwaysFailed) =>
        /\ rCalls = max_retries
        /\ rOutcome.kind \in {"RequestException", "Exception"}

RetryBoundWitness ==
    /\ rPc = "done" /\ AlwaysFailed
    /\ max_retries = 3 /\ rCalls = 3
    /\ rOutcome.kind = "RequestException"

\* C3: a response whose errors are non-empty ends the call at once: it is
\* the last call of the transport, GraphQLError is raised with its errors,
\* and when it answers the first attempt the transport was called once,
\* whatever max_retries is.
SemanticErrorNotRetried ==
    \A i \in 1..Len(rTrace) :
        ReturnedErrors(i) =>
            /\ rPc = "done"
            /\ rCalls = i
            /\ i = Len(rTrace)
            /\ rOutcome = RaisedGraphQLError(rTrace[i].value.errors)

SemanticErrorWitness ==
    /\ max_retries = 3
    /\ rPc = "done" /\ rCalls = 1
    /\ ReturnedErrors(1)
    /\ rOutcome.kind = "GraphQLError"

\* the call ended without the transport ever returning a response
Exhausted == rPc = "done" /\ rOutcome.kind \notin {"return", "GraphQLError"}

\* C4 as claimed: for every max_retries, a call that exhausts its attempts
\* raises the last failure of the transport, never a generic error.
ExhaustedRaisesLastTransportError ==
    Exhausted =>
        /\ rOutcome.kind = "RequestException"
        /\ rTrace # <<>>
        /\ rOutcome.err = rTrace[Len(rTrace)].err

\* C4 amended: for every max_retries >= 1 a call that exhausts its attempts
\* raises the last failure of the transport; with max_retries = 0 the
\* transport is not called and the generic exception is raised.
ExhaustedRaisesLastTransportErrorIfAttempted ==
    Exhausted =>
        IF max_retries >= 1
          THEN /\ rOutcome.kind = "RequestException"
               /\ rCalls = max_retries
               /\ rOutcome.err = rTrace[Len(rTrace)].err
          ELSE /\ rOutcome = RaisedMaxRetriesExceeded
               /\ rCalls = 0

ExhaustedWitness ==
    /\ Exhausted
    /\ max_retries = 2 /\ rCalls = 2
    /\ rTrace[1].err # rTrace[2].err
    /\ rOutcome = RaisedRequestException(rTrace[2].err)

(***************************************************************************)
(* Properties of the cached execute (checked under SpecCache)              *)
(***************************************************************************)
\* C1: a cached execute that comes right after a cached execute of the
\* same request on the same client that returned V returns V and does not
\* call the transport.
CacheHitAfterReturn ==
    [][ ( /\ lastCall.use_cache /\ lastCall.kind = "return"
          /\ lastCall'.use_cache
          /\ lastCall'.self = lastCall.self
          /\ lastCall'.query = lastCall.query
          /\ lastCall'.variables = lastCall.variables )
        => ( /\ transportCalls' = transportCalls
             /\ lastCall'.kind = "return"
             /\ lastCall'.value = lastCall.value ) ]_vars

\* a hit while the transport was called once: the call before it was the
\* miss that stored the entry, or a hit on it
CacheHitWitness ==
    /\ lastCall.use_cache /\ lastCall.hit
    /\ transportCalls = 1
    /\ lastCall.value = Response(TRUE, "d1", TRUE, <<"e1">>)

\* the keys a step removes from the cache
Evicted == CachedKeys(cache) \ CachedKeys(cache')

\* C10: a step evicts at most one key, only from a full cache, and the key
\* is the one accessed (stored or hit) longest ago; once LruMaxSize + 1
\* distinct keys were stored exactly one of them is missing; and a cached
\* execute of a key that is in the cache does not call the transport.
EvictsLeastRecentlyAccessed ==
    /\ [][ Evicted # {} =>
             /\ Evicted = {accessOrder[1]}
             /\ Len(cache) = LruMaxSize
             /\ CachedKeys(cache') = (CachedKeys(cache) \ Evicted) \cup {lastCall'.key} ]_vars
    /\ [](Len(cache) <= LruMaxSize)
    /\ [](Cardinality(everStored) = LruMaxSize + 1 =>
             Cardinality(everStored \ CachedKeys(cache)) = 1)
    /\ [][ transportCalls' # transportCalls =>
             ~(lastCall'.use_cache /\ lastCall'.key \in CachedKeys(cache)) ]_vars

\* LruMaxSize + 1 keys were stored by as many calls of the transport, and
\* after the eviction a key that stayed was hit
EvictionWitness ==
    /\ Cardinality(everStored) = LruMaxSize + 1
    /\ transportCalls = LruMaxSize + 1
    /\ Len(cache) = LruMaxSize
    /\ lastCall.hit
    /\ cache[1].key # lastCall.key

(***************************************************************************)
(* Properties of a subscription session (checked under SpecSub)            *)
(***************************************************************************)
\* the state of the session in the terms of the protocol description
SessionState ==
    CASE sPc = "idle" -> "Idle"
      [] sPc = "connecting" -> "Connecting"
      [] sPc = "ack_wait" -> "Ack-Pending"
      [] sPc \in {"listening", "yielded"} -> "Active"
      [] sPc = "done" /\ sExit = "raised" -> "Failed"
      [] sPc = "done" /\ sExit = "exhausted" -> "Complete"
      [] sPc = "done" /\ sExit = "cancelled" -> "Closed"

Terminal == SessionState \in {"Closed", "Complete", "Failed"}

StartSent == \E i \in 1..Len(sent) : sent[i].type = "start"

\* the frames consumed by the message loop, the session being Active: all
\* but the first one, which the handshake consumed
ActiveFrames == 2..Len(received)

\* C5 as claimed: connection_init is sent first; the start message is sent
\* only after a connection acknowledgement; any other first frame fails the
\* session and no start message is sent.
HandshakeRequiresAck ==
    /\ sent # <<>> => sent[1] = ConnectionInit
    /\ StartSent => (received # <<>> /\ received[1].type = "connection_ack")
    /\ (received # <<>> /\ received[1].type # "connection_ack") =>
          (SessionState = "Failed" /\ ~StartSent)

\* C6 as claimed: once a complete message was received the session is in
\* a terminal state, and no element is yielded for a frame that came after
\* a complete message.
CompleteEndsStream ==
    \A i \in ActiveFrames :
        received[i].type = "complete" =>
            /\ Terminal
            /\ \A y \in 1..Len(yielded) : yielded[y].at < i

\* C7 as claimed: once an error message was received the session is Failed
\* and no element is yielded for a later frame.
ErrorFailsSession ==
    \A i \in ActiveFrames :
        received[i].type = "error" =>
            /\ SessionState = "Failed"
            /\ \A y \in 1..Len(yielded) : yielded[y].at < i

\* C8: a session in a terminal state holds no open connection, whatever
\* ended it: the connection it opened is released; and a session opens at
\* most one connection.
ConnectionReleased ==
    /\ Terminal => (conn # "open" /\ (connsOpened = 1 => conn = "released"))
    /\ connsOpened <= 1
    /\ conn = "open" => connsOpened = 1

\* the connection dropped after an element was yielded
ConnectionReleasedWitness ==
    /\ SessionState = "Failed"
    /\ yielded # <<>>
    /\ received[Len(received)].type # "malformed"
    /\ conn = "released"

\* C9 as claimed: a session cancelled while its connection was open has
\* sent a stop message with the subscription id, and is Closed with the
\* connection released.
CancelSendsStop ==
    (sPc = "done" /\ sExit = "cancelled" /\ connsOpened = 1) =>
        /\ \E i \in 1..Len(sent) :
              sent[i].type = "stop" /\ sent[i].id = SubscriptionId
        /\ conn = "released"

(***************************************************************************)
(* Properties of the configured cache size (checked under SpecCacheSized)  *)
(***************************************************************************)
\* the keys of an instance that are in the cache
KeysOf(c) == { k \in CachedKeys(cache) : k.self = c }

\* C11 as claimed: an instance constructed with cache_size = N never holds
\* more than N entries (the (N+1)-th distinct key evicts one).
CacheSizeBoundsEntries ==
    \A c \in Clients : Cardinality(KeysOf(c)) <= cache_size[c]

(***************************************************************************)
(* Properties of the cache keys (checked under SpecKey)                    *)
(***************************************************************************)
\* == of two Python values: dicts are equal when they hold the same keys
\* with equal values, in whatever order
RECURSIVE DeepEqual(_, _)
DeepEqual(v, w) ==
    /\ v.tag = w.tag
    /\ v.tag = "int" => v.n = w.n
    /\ v.tag = "dict" =>
          /\ Len(v.items) = Len(w.items)
          /\ \A i \in 1..Len(v.items) : \E j \in 1..Len(w.items) :
                /\ v.items[i].k = w.items[j].k
                /\ DeepEqual(v.items[i].v, w.items[j].v)

\* C12: two requests with the same document and deep-equal variables get
\* the same key from _cache_key and the same lru_cache key, whatever the
\* insertion order of the variables at any depth, so the second request
\* hits the entry the first one stored.
CacheKeyDeterminism ==
    (kPc = "done" /\ DeepEqual(kVarsA, kVarsB)) =>
        /\ kKeys.cache_key_a = kKeys.cache_key_b
        /\ kKeys.execute_key_a = kKeys.execute_key_b
        /\ kKeys.hit_b

\* deep-equal variables that differ in order at both depths
CacheKeyWitness ==
    /\ kPc = "done"
    /\ kVarsA = PyDict(<<Item("a", PyDict(AB)), Item("b", PyInt(2))>>)
    /\ kVarsB = PyDict(<<Item("b", PyInt(2)), Item("a", PyDict(BA))>>)
    /\ DeepEqual(kVarsA, kVarsB)
    /\ kKeys.hit_b

(***************************************************************************)
(* What a cached execute stores (checked under SpecCache)                  *)
(***************************************************************************)
\* C13: a cached execute that called the transport stores the response the
\* transport returned, errors included, under its key; when the transport
\* raised, the cache is left as it was and the failure is what the call
\* raises; and nothing enters the cache but by a returned response.
StoresWhatTransportReturned ==
    /\ [][ (transportCalls' # transportCalls /\ lastCall'.use_cache) =>
             IF lastCall'.kind = "return"
               THEN /\ lastCall'.key \in CachedKeys(cache')
                    /\ cache'[LruIndex(cache', lastCall'.key)].value
                          = JsonDumpsResult(lastCall'.value)
               ELSE /\ lastCall'.kind = "raise"
                    /\ lastCall'.err \in TransportErrors
                    /\ cache' = cache ]_vars
    /\ [][ ~(CachedKeys(cache') \subseteq CachedKeys(cache)) =>
             /\ transportCalls' # transportCalls
             /\ lastCall'.use_cache /\ lastCall'.kind = "return" ]_vars

\* a response with errors is returned by a hit, after a call whose
\* transport failure stored nothing
StoredErrorsWitness ==
    /\ lastCall.use_cache /\ lastCall.hit
    /\ lastCall.value.hasErrors /\ lastCall.value.errors # NoErrors
    /\ transportCalls = 2
    /\ Len(cache) = 1

(***************************************************************************)
(* Properties of the typed operations (checked under SpecMapper)           *)
(***************************************************************************)
\* the typed operation op ended, the transport having returned a response
Mapped(op) == mPc = "done" /\ mOp = op /\ mResult.kind = "return"

\* the root field book of the response is null or missing: data.book is
\* null, data has no book, data is null, or there is no data
RootBookAbsent(r) ==
    \/ r.data \in {"absent", "null"}
    \/ r.data = "map" /\ r.book.tag \in {"absent", "null"}

\* C14 as claimed: get_book_by_id returns None, and raises nothing, for
\* every response whose root field book is null or missing.
NullBookMapsToNone ==
    (Mapped("get_book_by_id") /\ RootBookAbsent(mResult.value)) =>
        mOutcome = MapperReturnsNone

\* data.books of the response is a list
HasBooksList(r) == r.data = "map" /\ r.books.tag = "list"

\* the record has no author to map
NoAuthorIn(rec) == rec.author.tag \in {"absent", "null", "empty"}

\* the Book carries what its record holds
Carries(book, rec) ==
    /\ book.id = rec.id
    /\ book.title = rec.title
    /\ rec.hasGenre => book.genre = rec.genre
    /\ rec.hasYear => book.published_year = rec.publishedYear
    /\ book.hasAuthor = ~NoAuthorIn(rec)
    /\ book.hasAuthor =>
          /\ book.author.id = rec.author.id
          /\ book.author.name = rec.author.name
          /\ rec.author.hasBirthYear => book.author.birth_year = rec.author.birthYear

\* get_all_books returned one Book per record, in the order of the records
ReturnedBooksOf(list) ==
    /\ mOutcome.kind = "return"
    /\ ~mOutcome.isNone
    /\ Len(mOutcome.books) = Len(list)
    /\ \A i \in 1..Len(list) : Carries(mOutcome.books[i], list[i])

\* C15 as claimed: for every response whose data.books is a list of n
\* records get_all_books returns n Books in that order, each carrying the
\* fields of its record, records with id and title only included.
BookListMapped ==
    (Mapped("get_all_books") /\ HasBooksList(mResult.value)) =>
        ReturnedBooksOf(mResult.value.books.list)

\* the record holds every key the mapper subscripts
HasRequiredKeys(rec) ==
    /\ rec.hasGenre /\ rec.hasYear
    /\ ~NoAuthorIn(rec) => rec.author.hasBirthYear

\* C15 amended: when every record of the list holds id, title, genre and
\* publishedYear (and birthYear in its author), get_all_books returns n
\* Books in that order, each carrying the fields of its record, without
\* author when the record has none; otherwise it raises KeyError.
CompleteBookListMapped ==
    (Mapped("get_all_books") /\ HasBooksList(mResult.value)) =>
        LET list == mResult.value.books.list
        IN  IF \A i \in 1..Len(list) : HasRequiredKeys(list[i])
              THEN ReturnedBooksOf(list)
              ELSE mOutcome = MapperRaises("KeyError")

\* two complete records, the first with an author and the second without
BookListWitness ==
    /\ Mapped("get_all_books") /\ HasBooksList(mResult.value)
    /\ Len(mResult.value.books.list) = 2
    /\ mOutcome.kind = "return" /\ Len(mOutcome.books) = 2
    /\ mOutcome.books[1].id = 1 /\ mOutcome.books[1].hasAuthor
    /\ mOutcome.books[2].id = 2 /\ ~mOutcome.books[2].hasAuthor

(***************************************************************************)
(* More properties of execute_with_retry (checked under SpecRetry)         *)
(***************************************************************************)
\* the last outcome of the transport
LastOutcome == rTrace[Len(rTrace)]

\* C16 as claimed: the error raised for a response with non-empty errors
\* carries the errors of the response, in order, and the data the response
\* held beside them.
PartialDataObservable ==
    (rPc = "done" /\ rTrace # <<>> /\ ReturnedErrors(Len(rTrace))) =>
        /\ rOutcome.kind = "GraphQLError"
        /\ rOutcome.errors = LastOutcome.value.errors
        /\ LastOutcome.value.hasData =>
              /\ rOutcome.value.hasData
              /\ rOutcome.value.data = LastOutcome.value.data

\* the response reports no error: it has no errors, or an empty list of them
ErrorFree(v) == ~v.hasErrors \/ v.errors = NoErrors

\* the transport is called at most max_retries times, and not again once
\* it returned a response
NoCallBeyondBoundOrResponse ==
    /\ rCalls <= max_retries
    /\ rCalls = Len(rTrace)
    /\ \A i \in 1..Len(rTrace) :
          rTrace[i].kind = "return" => (i = Len(rTrace) /\ rPc = "done")

\* C20 as claimed: when the transport, after k-1 failures, returns an
\* error-free response on attempt k, execute_with_retry returns that
\* response after k calls; calls never exceed max_retries and none follows
\* a response.
RetrySuccessPath ==
    /\ NoCallBeyondBoundOrResponse
    /\ (rPc = "done" /\ rTrace # <<>> /\ LastOutcome.kind = "return"
          /\ ErrorFree(LastOutcome.value)) =>
             rOutcome = Returned(LastOutcome.value)

\* what the code does on the success path of C20: the response of attempt k
\* is returned when it has no errors key; a response with an errors key,
\* be the list empty, raises GraphQLError; calls never exceed max_retries
\* and none follows a response.
RetrySuccessPathWithoutErrorsKey ==
    /\ NoCallBeyondBoundOrResponse
    /\ (rPc = "done" /\ rTrace # <<>> /\ LastOutcome.kind = "return") =>
          IF LastOutcome.value.hasErrors
            THEN rOutcome = RaisedGraphQLError(LastOutcome.value.errors)
            ELSE rOutcome = Returned(LastOutcome.value)

\* two failures, then a response without errors on the third attempt
RetrySuccessWitness ==
    /\ rPc = "done" /\ max_retries = 3 /\ rCalls = 3
    /\ rTrace[1].kind = "raise" /\ rTrace[2].kind = "raise"
    /\ rTrace[3].kind = "return" /\ ~rTrace[3].value.hasErrors
    /\ rOutcome = Returned(rTrace[3].value)

(***************************************************************************)
(* More properties of a subscription session (checked under SpecSub)       *)
(***************************************************************************)
\* the data messages the message loop consumed, in arrival order
DataFramesReceived ==
    SelectSeq([i \in 1..(Len(received) - 1) |-> received[i + 1]],
              LAMBDA f : f.type = "data")

YieldsOnlyMatchingId ==
    \A i \in 1..Len(yielded) : received[yielded[i].at].id = SubscriptionId

(***************************************************************************)
(* The cache under concurrent callers (checked under SpecCacheConc)        *)
(***************************************************************************)
\* the responses the transport of the cached client returns
ReturnedResponses ==
    { o.value : o \in { x \in CacheTransportOutcomes : x.kind = "return" } }

\* every entry holds a whole response the transport returned for its key,
\* no key has two entries, and there are at most maxsize entries
CacheWellFormed ==
    /\ Len(cache) <= LruMaxSize
    /\ Cardinality(CachedKeys(cache)) = Len(cache)
    /\ \A i \in 1..Len(cache) :
          /\ cache[i].value.result \in ReturnedResponses
          /\ <<cache[i].key, cache[i].value.result>> \in fetched

\* what a call returned from the cache is a whole response the transport
\* returned for the key of the call
HitReturnsFetched ==
    (lastCall.use_cache /\ lastCall.hit) =>
        /\ lastCall.kind = "return" /\ ~lastCall.transport
        /\ lastCall.value \in ReturnedResponses
        /\ <<lastCall.key, lastCall.value>> \in fetched

\* a step that calls the transport is the miss of a thread whose key has
\* no entry at that moment
TransportOnlyOnMiss ==
    transportCalls' # transportCalls =>
        /\ transportCalls' = transportCalls + 1
        /\ \E t \in Threads :
              /\ threads[t].pc = "idle" /\ threads'[t].pc = "fetching"
              /\ KeyOfThread(threads'[t]) \notin CachedKeys(cache)

\* C19: under any interleaving of the threads the cache holds at most
\* maxsize entries, one per key, each a whole response the transport
\* returned for that key, a hit returns such a response, and the transport
\* is called only by a call that found no entry for its key (two threads
\* that miss on one key both call it).
CacheConsistentUnderConcurrency ==
    /\ [](CacheWellFormed /\ HitReturnsFetched)
    /\ [][TransportOnlyOnMiss]_vars

\* two threads missed on one key and the transport answered them
\* differently: the entry is the first answer, the second call returned
\* its own
MissRaceWitness ==
    /\ \A t \in Threads : threads[t].pc = "idle"
    /\ transportCalls = 2
    /\ lastCall.transport /\ lastCall.kind = "return"
    /\ lastCall.key \in CachedKeys(cache)
    /\ cache[LruIndex(cache, lastCall.key)].value.result # lastCall.value
    /\ Len(cache) = 1

(***************************************************************************)
(* Two instances and the one cache behind them (checked under SpecCache)   *)
(***************************************************************************)
\* the keys instance c ever had stored
EverStoredBy(c) == { k \in everStored : k.self = c }

\* C21 as claimed: the entries of an instance leave the cache only through
\* the calls of that instance, so a key it stored is still cached unless
\* the instance itself stored more keys than the cache can hold; calls on
\* another instance never turn its hits into misses.
InstancesIndependent ==
    \A c \in Clients :
        Cardinality(EverStoredBy(c)) <= LruMaxSize =>
            EverStoredBy(c) \subseteq CachedKeys(cache)

\* what the code does: one cache of maxsize entries serves all instances,
\* an entry of an instance is missing only after more than maxsize keys
\* were stored by all instances together
InstancesShareOneCache ==
    Cardinality(everStored) <= LruMaxSize => everStored \subseteq CachedKeys(cache)

====
